---------------------------- MODULE Spec2Model ----------------------------
(***************************************************************************)
(* Model of the deterministic operator-execution substrate of Q-Stack:    *)
(* OperatorGraph and GraphVM of src/qstack/qnx/runtime/graph_vm.py, the    *)
(* CheckpointManager and FaultIsolationZones the runtime package exports,  *)
(* the telemetry adapters of src/telemetry_api, MemorySystem and           *)
(* PerceptionLayer of src/qstack/qnx_agi, and the IRBuilder of             *)
(* src/runtime/python/quasim/ir/ir_builder.py.                             *)
(*                                                                         *)
(* Operator identifiers are modelled as the integers 1..MaxNode; the       *)
(* order of the integers stands for the lexicographic order of the         *)
(* identifier strings (node i is the string "n<i>").                       *)
(***************************************************************************)
EXTENDS Integers, Sequences, FiniteSets, TLC

\* ------------------------------------------------------------------ bounds
MaxNode == 3
MaxEdges == 3
MaxRuns == 2

Nodes == 1..MaxNode
Inst == {1, 2}
NoNode == 0

VARIABLES
  edges,       \* edges[g]: OperatorGraph._edges of graph g, a dict node -> list
  reverse,     \* reverse[g]: OperatorGraph._reverse of graph g
  calls,       \* calls[g]: the add_edge calls made on graph g so far, in order
  topoResult,  \* topoResult[g]: outcome of the last direct topological() call
  constructed, \* constructed[v]: GraphVM v exists (it is bound to graph v)
  operators,   \* operators[v]: GraphVM._operators.available(), a dict name -> op
  tick,        \* tick[v]: GraphVM._tick
  trace,       \* trace[v]: the entries of GraphVM._trace (a TraceRecorder)
  pc,          \* pc[v]: "idle", or "running" inside the for loop of run()
  order,       \* order[v]: the list run() iterates over
  idx,         \* idx[v]: position of the loop of run() in order[v]
  local,       \* local[v]: the local list `trace` run() builds and returns
  state,       \* state[v]: the state object passed to run()
  outcome,     \* outcome[v]: what the last run() call returned or raised
  runStart,    \* runStart[v]: what held when the current/last run() was called
  invoked,     \* invoked[v]: the execute() invocations of the current/last run
  runLog,      \* runLog[v]: the completed run() calls, in call order
  built,       \* built[v]: the add_edge calls graph v had when VM v was built
  replayed     \* replayed[v]: what the replay_buffer() calls made since the
               \*   last run() call returned, in call order

VARIABLES
  checkpoints, \* CheckpointManager: the retained checkpoints, oldest first
  intact,      \* the checkpoints as they were stored, before any corruption
  taken,       \* taken[t]: the state given to take(t, state), kept while
               \*   the checkpoint of tick t is retained
  restored     \* what the last restore(tick) call returned or raised

VARIABLES
  zoneState,   \* FaultIsolationZones: zoneState[z] is "Closed" or "Tripped"
  trips,       \* trips[z]: the trip counter of zone z
  resets       \* resets[z]: the explicit reset calls made on zone z

VARIABLES
  raw_batch,   \* the raw telemetry records collected for the next batch
  ingested,    \* what the last ingest_batch call returned
  parsed       \* what the last parse_telemetry call returned or raised

cpVars == <<checkpoints, intact, taken, restored>>
zoneVars == <<zoneState, trips, resets>>
telVars == <<raw_batch, ingested, parsed>>
\* MemorySystem: whether the instance exists, its capacity and _buffer, the
\* pairs recorded since construction or the last clear(), and the last call
VARIABLES made, capacity, buffer, recorded, memCall
memVars == <<made, capacity, buffer, recorded, memCall>>
\* PerceptionLayer: the list objects in memory (the layer's _listeners and
\* the list the last listeners() call returned), the reference the caller
\* holds, the names passed to register_listener, the last result of
\* process() and the last call
VARIABLES heap, returned, registered, percepts, perCall
perVars == <<heap, returned, registered, percepts, perCall>>
\* IRBuilder: the IRNode objects in memory (an object is its position), the
\* list builder.nodes, _fusion_enabled, the number of optimize() calls, and
\* of the last optimize() call: builder.nodes before it, whether it ran the
\* fusion pass, and the (parent, child, fused node) triples it fused
VARIABLES irNodes, nodes, fusion_enabled, optimized, nodesBefore, fusionRan,
          fusions
irVars == <<irNodes, nodes, fusion_enabled, optimized, nodesBefore, fusionRan,
            fusions>>
libVars == <<memVars, perVars, irVars>>
compVars == <<cpVars, zoneVars, telVars, libVars>>

graphVars == <<edges, reverse, calls, topoResult>>
vmVars == <<constructed, operators, tick, trace, pc, order, idx, local, state,
            outcome, runStart, invoked, runLog, built, replayed>>
vars == <<edges, reverse, calls, topoResult, constructed, operators, tick,
          trace, pc, order, idx, local, state, outcome, runStart, invoked,
          runLog, built, replayed, compVars>>

\* ------------------------------------------------------------ dict helpers
EmptyDict == <<>>

\* dict.setdefault(k, v), as the resulting dict
SetDefault(d, k, v) ==
  IF k \in DOMAIN d THEN d
  ELSE [x \in (DOMAIN d) \cup {k} |-> IF x = k THEN v ELSE d[x]]

\* dict.get(k, default)
Get(d, k, default) == IF k \in DOMAIN d THEN d[k] ELSE default

\* ------------------------------------------------------------ OperatorGraph
\* self._edges after add_edge(src, dst)
add_edge_edges(E, src, dst) ==
  LET E1 == SetDefault(E, src, <<>>)
      E2 == [E1 EXCEPT ![src] = Append(@, dst)]
  IN  SetDefault(E2, dst, <<>>)

add_edge_reverseNoSrc(R, src, dst) ==
  [SetDefault(R, dst, <<>>) EXCEPT ![dst] = Append(@, src)]

\* self._reverse after add_edge(src, dst)
add_edge_reverse(R, src, dst) ==
  LET R1 == SetDefault(R, dst, <<>>)
      R2 == [R1 EXCEPT ![dst] = Append(@, src)]
  IN  SetDefault(R2, src, <<>>)

\* indegree = {node: len(parents) for node, parents in self._reverse.items()}
Indegree(R) == [n \in DOMAIN R |-> Len(R[n])]

\* sorted(S) for a set of identifiers
RECURSIVE SortedDescending(_)
SortedDescending(S) ==
  IF S = {} THEN <<>>
  ELSE LET m == CHOOSE x \in S : \A y \in S : x >= y
       IN  <<m>> \o SortedDescending(S \ {m})

RECURSIVE Sorted(_)
Sorted(S) ==
  IF S = {} THEN <<>>
  ELSE LET m == CHOOSE x \in S : \A y \in S : x <= y
       IN  <<m>> \o Sorted(S \ {m})

\* what the for loop over the popped node's neighbours does with a neighbour
\* whose in-degree has just been decremented to d
EnqueueIfReadyStale(queue, n, d) == IF d + 1 = 0 THEN Append(queue, n) ELSE queue
EnqueueIfReady(queue, n, d) == IF d = 0 THEN Append(queue, n) ELSE queue

\* the for loop: for neighbor in self._edges.get(node, [])
RECURSIVE Relax(_, _, _)
Relax(nb, indeg, queue) ==
  IF nb = <<>> THEN [indegree |-> indeg, queue |-> queue]
  ELSE LET n == Head(nb)
           d == indeg[n] - 1
       IN  Relax(Tail(nb), [indeg EXCEPT ![n] = d], EnqueueIfReady(queue, n, d))

\* the while loop: pop the front, append it to the order, relax its successors
RECURSIVE Drain(_, _, _, _)
Drain(E, indeg, queue, ord) ==
  IF queue = <<>> THEN ord
  ELSE LET node == Head(queue)
           r == Relax(Get(E, node, <<>>), indeg, Tail(queue))
       IN  Drain(E, r.indegree, r.queue, Append(ord, node))

Raised(kind) == [ok |-> FALSE, err |-> kind, order |-> <<>>]
Returned(ord) == [ok |-> TRUE, err |-> "", order |-> ord]

\* the final check of topological(): len(order) != len(indegree) raises
CycleCheckNone(ord, indeg) == Returned(ord)
CycleCheck(ord, indeg) ==
  IF Len(ord) # Cardinality(DOMAIN indeg) THEN Raised("ValueError")
  ELSE Returned(ord)

\* OperatorGraph.topological(): the order, or the exception it raises
topological(E, R) ==
  LET indeg == Indegree(R)
      ready == Sorted({n \in DOMAIN indeg : indeg[n] = 0})
  IN  CycleCheck(Drain(E, indeg, ready, <<>>), indeg)

NoResult == [ok |-> FALSE, err |-> "none", order |-> <<>>]

\* ------------------------------------------------ sequences of add_edge calls
Edge == Nodes \X Nodes
\* every sequence of at most MaxEdges add_edge calls
EdgeSeqs == UNION {[1..k -> Edge] : k \in 0..MaxEdges}
\* the set of edges a sequence of add_edge calls yields
EdgeSet(s) == {s[i] : i \in 1..Len(s)}
\* the identifiers a sequence of add_edge calls names
NodesOf(s) == {s[i][1] : i \in 1..Len(s)} \cup {s[i][2] : i \in 1..Len(s)}

\* the graph a fresh OperatorGraph holds after the add_edge calls of s
RECURSIVE Build(_)
Build(s) ==
  IF s = <<>> THEN [edges |-> EmptyDict, reverse |-> EmptyDict]
  ELSE LET g == Build(SubSeq(s, 1, Len(s) - 1))
           e == s[Len(s)]
       IN  [edges |-> add_edge_edges(g.edges, e[1], e[2]),
            reverse |-> add_edge_reverse(g.reverse, e[1], e[2])]

\* ---------------------------------------------------------------- actions
\* graph g: add_edge(src, dst)
AddEdge(g, src, dst, cap) ==
  /\ Len(calls[g]) < cap
  /\ edges' = [edges EXCEPT ![g] = add_edge_edges(@, src, dst)]
  /\ reverse' = [reverse EXCEPT ![g] = add_edge_reverse(@, src, dst)]
  /\ calls' = [calls EXCEPT ![g] = Append(@, <<src, dst>>)]
  /\ topoResult' = [topoResult EXCEPT ![g] = NoResult]
  /\ UNCHANGED vmVars
  /\ UNCHANGED compVars

\* a caller invokes graph g's topological() directly
Topological(g) ==
  /\ topoResult[g] = NoResult
  /\ topoResult' = [topoResult EXCEPT ![g] = topological(edges[g], reverse[g])]
  /\ UNCHANGED <<edges, reverse, calls>>
  /\ UNCHANGED vmVars
  /\ UNCHANGED compVars

\* ------------------------------------------------------------------ GraphVM
\* the behaviours an operator supplied by the caller may have: "incr" adds one
\* to the state's observable x and returns it, "raise" raises an exception
Behaviours == {"incr", "raise"}
\* every OperatorLibrary.available() mapping over the names N (unregistered
\* names are absent; names no graph node bears are never looked up)
Libraries(N) == UNION {[D -> Behaviours] : D \in SUBSET N}
\* the state objects a caller passes to run()
InitStates == {0, 1}

\* Operator.execute(state, goal): the state afterwards and the result
Execute(beh, s) ==
  IF beh = "raise" THEN [raised |-> TRUE, state |-> s, result |-> 0]
  ELSE [raised |-> FALSE, state |-> s + 1, result |-> s + 1]

\* TraceRecorder.record(kind, payload), as the entries afterwards
TraceRecorder_record(entries, kind, payload) ==
  Append(entries, [kind |-> kind, payload |-> payload])
\* TraceRecorder.snapshot()
TraceRecorder_snapshot(entries) == entries

\* self._tick = 0 in GraphVM.__init__
InitialTickOne(v) == 1
InitialTick(v) == 0
\* self._tick += 1
NextTickByTwo(t) == t + 2
NextTick(t) == t + 1
\* the tick run() of VM v stamps on a record: self._tick
TickOfShared(v, ticks) == ticks[1] + ticks[2]
TickOf(v, ticks) == ticks[v]

replay_bufferEntries(v) == TraceRecorder_snapshot(trace[v])

\* GraphVM.replay_buffer()
replay_buffer(v) ==
  LET snap == TraceRecorder_snapshot(trace[v])
  IN  [i \in 1..Len(snap) |-> snap[i].payload]

NoOutcome == [kind |-> "none", trace |-> <<>>, name |-> NoNode]
ReturnedTrace(tr) == [kind |-> "returned", trace |-> tr, name |-> NoNode]
RaisedIn(kind, name) == [kind |-> kind, trace |-> <<>>, name |-> name]
NoRunStart == [state |-> 0, tick |-> 0, traceLen |-> 0, calls |-> <<>>]

\* the run() call of VM v has ended with outcome out
EndRun(v, out) ==
  /\ pc' = [pc EXCEPT ![v] = "idle"]
  /\ outcome' = [outcome EXCEPT ![v] = out]
  /\ runLog' = [runLog EXCEPT ![v] =
                  Append(@, [start |-> runStart[v], outcome |-> out])]

\* GraphVM(operators, graph): VM v is constructed on graph v
Construct(v, lib) ==
  /\ ~constructed[v]
  /\ constructed' = [constructed EXCEPT ![v] = TRUE]
  /\ operators' = [operators EXCEPT ![v] = lib]
  /\ tick' = [tick EXCEPT ![v] = InitialTick(v)]
  /\ trace' = [trace EXCEPT ![v] = <<>>]
  /\ built' = [built EXCEPT ![v] = calls[v]]
  /\ UNCHANGED <<pc, order, idx, local, state, outcome, runStart, invoked,
                 runLog, replayed>>
  /\ UNCHANGED graphVars
  /\ UNCHANGED compVars

\* run(state, goal) is called on VM v: topological() is evaluated; it raises
\* on a cycle, and on an empty order the loop body never runs
RunStart(v, s0) ==
  /\ constructed[v] /\ pc[v] = "idle"
  /\ Len(runLog[v]) < MaxRuns
  /\ state' = [state EXCEPT ![v] = s0]
  /\ runStart' = [runStart EXCEPT ![v] =
        [state |-> s0, tick |-> tick[v], traceLen |-> Len(trace[v]),
         calls |-> calls[v]]]
  /\ invoked' = [invoked EXCEPT ![v] = <<>>]
  /\ local' = [local EXCEPT ![v] = <<>>]
  /\ idx' = [idx EXCEPT ![v] = 1]
  /\ LET r == topological(edges[v], reverse[v])
         out == IF r.ok THEN ReturnedTrace(<<>>) ELSE RaisedIn(r.err, NoNode)
     IN  /\ order' = [order EXCEPT ![v] = r.order]
         /\ IF r.ok /\ r.order # <<>>
            THEN /\ pc' = [pc EXCEPT ![v] = "running"]
                 /\ outcome' = [outcome EXCEPT ![v] = NoOutcome]
                 /\ UNCHANGED runLog
            ELSE /\ pc' = [pc EXCEPT ![v] = "idle"]
                 /\ outcome' = [outcome EXCEPT ![v] = out]
                 /\ runLog' = [runLog EXCEPT ![v] =
                      Append(@, [start |-> runStart'[v], outcome |-> out])]
  /\ replayed' = [replayed EXCEPT ![v] = <<>>]
  /\ UNCHANGED <<constructed, operators, tick, trace, built>>
  /\ UNCHANGED graphVars
  /\ UNCHANGED compVars

\* one iteration of the for loop of run(): look the operator up, execute it,
\* record the result and advance the tick; an exception ends the call, and
\* after the last operator of the order run() returns its local trace
RunStep(v) ==
  /\ pc[v] = "running" /\ idx[v] <= Len(order[v])
  /\ LET name == order[v][idx[v]]
         op == Get(operators[v], name, "none")
     IN  IF op = "none"
         THEN /\ EndRun(v, RaisedIn("KeyError", name))
              /\ UNCHANGED <<state, invoked, tick, trace, local, idx>>
         ELSE LET r == Execute(op, state[v]) IN
              /\ invoked' = [invoked EXCEPT ![v] =
                              Append(@, [op |-> name, pre |-> state[v]])]
              /\ state' = [state EXCEPT ![v] = r.state]
              /\ IF r.raised
                 THEN /\ EndRun(v, RaisedIn("OperatorError", name))
                      /\ UNCHANGED <<tick, trace, local, idx>>
                 ELSE LET record == [tick |-> TickOf(v, tick), op |-> name,
                                     result |-> r.result]
                      IN  /\ trace' = [trace EXCEPT ![v] =
                                 TraceRecorder_record(@, "execute", record)]
                          /\ local' = [local EXCEPT ![v] = Append(@, record)]
                          /\ tick' = [tick EXCEPT ![v] = NextTick(@)]
                          /\ idx' = [idx EXCEPT ![v] = @ + 1]
                          /\ IF idx[v] = Len(order[v])
                             THEN EndRun(v, ReturnedTrace(local'[v]))
                             ELSE UNCHANGED <<pc, outcome, runLog>>
  /\ UNCHANGED <<constructed, operators, order, runStart, built, replayed>>
  /\ UNCHANGED graphVars
  /\ UNCHANGED compVars

\* replay_buffer() is called on VM v (between run() calls)
ReplayBuffer(v) ==
  /\ constructed[v] /\ pc[v] = "idle"
  /\ Len(replayed[v]) < 2
  /\ replayed' = [replayed EXCEPT ![v] = Append(@, replay_buffer(v))]
  /\ UNCHANGED <<constructed, operators, tick, trace, pc, order, idx, local,
                 state, outcome, runStart, invoked, runLog, built>>
  /\ UNCHANGED graphVars
  /\ UNCHANGED compVars

\* ------------------------------------------------------- CheckpointManager
MaxTick == 3
RetentionDepth == 2

Keys == {"x", "y"}
Vals == {0, 1}
\* the state snapshots: dicts from some of the keys to values
Snapshots == UNION {[D -> Vals] : D \in SUBSET Keys}
EmptySnapshot == [k \in {} |-> 0]

\* the content hash of a snapshot: a deterministic function of its contents
\* that tells any two snapshots apart
Weight(k) == IF k = "x" THEN 1 ELSE 3
RECURSIVE HashOver(_, _)
HashOver(s, D) ==
  IF D = {} THEN 0
  ELSE LET k == CHOOSE x \in D : TRUE
       IN  Weight(k) * (s[k] + 1) + HashOver(s, D \ {k})
Hash(s) == HashOver(s, DOMAIN s)

\* compute_delta(old, new): the added, removed and changed keys
compute_delta(old, new) ==
  [added   |-> [k \in (DOMAIN new) \ (DOMAIN old) |-> new[k]],
   removed |-> (DOMAIN old) \ (DOMAIN new),
   changed |-> [k \in {x \in (DOMAIN old) \cap (DOMAIN new) : old[x] # new[x]}
                 |-> new[k]]]
EmptyDelta == compute_delta(EmptySnapshot, EmptySnapshot)

\* a delta replayed forward on the snapshot before it
apply_delta(old, d) ==
  [k \in (((DOMAIN old) \ d.removed) \cup (DOMAIN d.added))
          \cup ((DOMAIN d.changed) \cap (DOMAIN old)) |->
     IF k \in DOMAIN d.added THEN d.added[k]
     ELSE IF k \in DOMAIN d.changed THEN d.changed[k]
     ELSE old[k]]

FullCheckpoint(t, s, h) ==
  [tick |-> t, full |-> TRUE, snapshot |-> s, delta |-> EmptyDelta, hash |-> h]
DeltaCheckpoint(t, d, h) ==
  [tick |-> t, full |-> FALSE, snapshot |-> EmptySnapshot, delta |-> d,
   hash |-> h]

\* the snapshot of checkpoint i, reconstructed by replaying the stored deltas
\* forward from the nearest full snapshot (no verification)
RECURSIVE Reconstruct(_, _)
Reconstruct(cps, i) ==
  IF cps[i].full THEN cps[i].snapshot
  ELSE apply_delta(Reconstruct(cps, i - 1), cps[i].delta)

VerifyNone(s, h) == TRUE

\* the hash check restore makes on each snapshot it reconstructs
Verify(s, h) == Hash(s) = h

\* every snapshot from the nearest full one up to checkpoint i verifies
RECURSIVE ChainVerifies(_, _)
ChainVerifies(cps, i) ==
  /\ Verify(Reconstruct(cps, i), cps[i].hash)
  /\ cps[i].full \/ ChainVerifies(cps, i - 1)

\* pruning beyond the retention depth, oldest evicted first; the checkpoint
\* that becomes the oldest is kept as a full snapshot
Prune(cps) ==
  IF Len(cps) <= RetentionDepth THEN cps
  ELSE LET second == cps[2]
           base == FullCheckpoint(second.tick, Reconstruct(cps, 2), second.hash)
       IN  <<base>> \o SubSeq(cps, 3, Len(cps))

\* CheckpointManager.take(tick, state), as the resulting store; asDelta: only
\* a delta from the prior checkpoint is stored
take(cps, t, s, asDelta) ==
  LET entry == IF asDelta /\ cps # <<>>
               THEN DeltaCheckpoint(t,
                      compute_delta(Reconstruct(cps, Len(cps)), s), Hash(s))
               ELSE FullCheckpoint(t, s, Hash(s))
  IN  Prune(Append(cps, entry))

IndexOf(cps, t) == CHOOSE i \in 1..Len(cps) : cps[i].tick = t
Retained(cps) == {cps[i].tick : i \in 1..Len(cps)}

NoRestore == [tick |-> 0, kind |-> "none", snapshot |-> EmptySnapshot]
\* CheckpointManager.restore(tick) of a retained tick
restore(cps, t) ==
  LET i == IndexOf(cps, t)
  IN  IF ChainVerifies(cps, i)
      THEN [tick |-> t, kind |-> "snapshot", snapshot |-> Reconstruct(cps, i)]
      ELSE [tick |-> t, kind |-> "CheckpointCorruptionError",
            snapshot |-> EmptySnapshot]

\* a stored value is corrupted: one value of the snapshot or delta bytes of
\* a retained checkpoint changes
Flip(f, k) == [x \in DOMAIN f |-> IF x = k THEN 1 - f[x] ELSE f[x]]
CorruptEntry(e, k) ==
  IF e.full THEN [e EXCEPT !.snapshot = Flip(@, k)]
  ELSE [e EXCEPT !.delta = [@ EXCEPT !.added = Flip(@, k),
                                     !.changed = Flip(@, k)]]
StoredKeys(e) ==
  IF e.full THEN DOMAIN e.snapshot
  ELSE (DOMAIN e.delta.added) \cup (DOMAIN e.delta.changed)

Take(t, s, asDelta) ==
  /\ \A u \in DOMAIN taken : u < t
  /\ checkpoints' = take(checkpoints, t, s, asDelta)
  /\ intact' = take(intact, t, s, asDelta)
  /\ taken' = [u \in (DOMAIN taken) \cup {t} |->
                  IF u = t THEN s
                  ELSE IF u \in Retained(checkpoints') THEN taken[u]
                  ELSE EmptySnapshot]
  /\ UNCHANGED restored

Corrupt(i, k) ==
  /\ i \in 1..Len(checkpoints)
  /\ k \in StoredKeys(checkpoints[i])
  /\ checkpoints' = [checkpoints EXCEPT ![i] = CorruptEntry(@, k)]
  /\ UNCHANGED <<intact, taken, restored>>

Restore(t) ==
  /\ t \in Retained(checkpoints)
  /\ restored' = restore(checkpoints, t)
  /\ UNCHANGED <<checkpoints, intact, taken>>

CheckpointInit ==
  /\ checkpoints = <<>>
  /\ intact = <<>>
  /\ taken = <<>>
  /\ restored = NoRestore

\* a CheckpointManager taking checkpoints at increasing ticks, its store
\* suffering corruption, and restore calls on retained ticks
NextCheckpoint ==
  \/ \E t \in 1..MaxTick, s \in Snapshots, asDelta \in BOOLEAN :
       Take(t, s, asDelta) /\ UNCHANGED <<graphVars, vmVars, zoneVars, telVars, libVars>>
  \/ \E i \in 1..RetentionDepth, k \in Keys :
       Corrupt(i, k) /\ UNCHANGED <<graphVars, vmVars, zoneVars, telVars, libVars>>
  \/ \E t \in 1..MaxTick :
       Restore(t) /\ UNCHANGED <<graphVars, vmVars, zoneVars, telVars, libVars>>

\* ----------------------------------------------------- FaultIsolationZones
MaxTrips == 2
MaxResets == 2
Zones == {"A", "B"}

AfterExecutionHealing(st, raised) == IF raised THEN "Tripped" ELSE "Closed"

\* the state of a zone after one of its operators was executed
AfterExecution(st, raised) == IF raised THEN "Tripped" ELSE st

\* an operator of zone z is executed and succeeds or raises (a contained
\* fault trips the zone)
ZoneExecute(z, raised) ==
  /\ raised => trips[z] < MaxTrips
  /\ zoneState' = [zoneState EXCEPT ![z] = AfterExecution(@, raised)]
  /\ trips' = [trips EXCEPT ![z] = IF raised THEN @ + 1 ELSE @]
  /\ UNCHANGED resets

\* the explicit reset call on zone z
ZoneReset(z) ==
  /\ resets[z] < MaxResets
  /\ zoneState' = [zoneState EXCEPT ![z] = "Closed"]
  /\ resets' = [resets EXCEPT ![z] = @ + 1]
  /\ UNCHANGED trips

ZoneInit ==
  /\ zoneState = [z \in Zones |-> "Closed"]
  /\ trips = [z \in Zones |-> 0]
  /\ resets = [z \in Zones |-> 0]

\* ------------------------------------------------------ telemetry adapters
\* Raw records are dicts from field names to values.  A timestamp is a number
\* or a string that is not one; a vehicle id is the sequence of its parts,
\* prefix first; a vector field is a list of components or a value without a
\* length (None).  Lengths are in units of 100 km, speeds in km/s and
\* quaternion components in hundredths, so that magnitudes are compared
\* as integers.  Only the fields validate_schema reads are carried.
MaxBatch == 2
Adapters == {"Dragon", "Starship"}

Number(n) == [num |-> TRUE, val |-> n]
NotANumber == [num |-> FALSE, val |-> 0]
List(s) == [seq |-> TRUE, v |-> s]
None == [seq |-> FALSE, v |-> <<>>]

RequiredFieldsReversed(a) ==
  IF a = "Dragon" THEN <<"vehicle_id", "timestamp">>
  ELSE <<"stage_id", "vehicle_id", "timestamp">>

\* required_fields, in the order parse_telemetry checks them
RequiredFields(a) ==
  IF a = "Dragon" THEN <<"timestamp", "vehicle_id">>
  ELSE <<"timestamp", "vehicle_id", "stage_id">>

DefaultOutOfRange(a, f) ==
  CASE f \in {"position", "velocity"} -> List(<<0, 0, 0>>)
    [] f = "attitude_q" -> List(<<100, 0, 0, 0>>)
    [] f = "cabin_temp" -> 20
    [] f = "battery_soc" -> 101
    [] f = "docking_status" -> "SEPARATED"
    [] f = "flight_mode" -> "ASCENT"
    [] f = "raptor_count" -> 0 - 1
    [] OTHER -> 0

\* the default parse_telemetry passes to raw_data.get for a field
Default(a, f) ==
  CASE f \in {"position", "velocity"} -> List(<<0, 0, 0>>)
    [] f = "attitude_q" -> List(<<100, 0, 0, 0>>)
    [] f = "cabin_temp" -> 20
    [] f = "battery_soc" -> 100
    [] f = "docking_status" -> "SEPARATED"
    [] f = "flight_mode" -> "ASCENT"
    [] OTHER -> 0  \* mass, raptor_count, propellant_mass, altitude, mach,
                   \* heat_flux

\* the first required field missing from raw, "" when none is
RECURSIVE FirstMissing(_, _, _)
FirstMissing(fields, raw, i) ==
  IF i > Len(fields) THEN ""
  ELSE IF fields[i] \notin DOMAIN raw THEN fields[i]
  ELSE FirstMissing(fields, raw, i + 1)

RaisedError(kind, msg, arg) ==
  [kind |-> kind, msg |-> msg, arg |-> arg, schema |-> <<>>]
ParsedSchema(s) == [kind |-> "schema", msg |-> "", arg |-> "", schema |-> <<s>>]

DragonSchema(raw) ==
  [timestamp |-> raw["timestamp"].val,
   vehicle_id |-> raw["vehicle_id"],
   position_eci |-> Get(raw, "position", Default("Dragon", "position")),
   velocity_eci |-> Get(raw, "velocity", Default("Dragon", "velocity")),
   attitude_quaternion |->
     Get(raw, "attitude_q", Default("Dragon", "attitude_q")),
   cabin_temp_c |-> Get(raw, "cabin_temp", Default("Dragon", "cabin_temp")),
   battery_soc_pct |->
     Get(raw, "battery_soc", Default("Dragon", "battery_soc")),
   docking_status |->
     Get(raw, "docking_status", Default("Dragon", "docking_status"))]

StarshipSchema(raw) ==
  [timestamp |-> raw["timestamp"].val,
   vehicle_id |-> raw["vehicle_id"],
   stage_id |-> raw["stage_id"],
   position |-> Get(raw, "position", Default("Starship", "position")),
   velocity |-> Get(raw, "velocity", Default("Starship", "velocity")),
   attitude_quaternion |->
     Get(raw, "attitude_q", Default("Starship", "attitude_q")),
   mass_kg |-> Get(raw, "mass", Default("Starship", "mass")),
   raptor_count |->
     Get(raw, "raptor_count", Default("Starship", "raptor_count")),
   propellant_mass_kg |->
     Get(raw, "propellant_mass", Default("Starship", "propellant_mass")),
   flight_mode |-> Get(raw, "flight_mode", Default("Starship", "flight_mode")),
   altitude_m |-> Get(raw, "altitude", Default("Starship", "altitude")),
   mach_number |-> Get(raw, "mach", Default("Starship", "mach")),
   heat_flux_kwpm2 |->
     Get(raw, "heat_flux", Default("Starship", "heat_flux"))]

\* parse_telemetry(raw_data) of adapter a
parse_telemetry(a, raw) ==
  LET missing == FirstMissing(RequiredFields(a), raw, 1)
  IN  IF missing # ""
      THEN RaisedError("ValueError", "Missing required field", missing)
      ELSE IF ~raw["timestamp"].num
      THEN RaisedError("ValueError", "could not convert string to float",
                       "timestamp")
      ELSE ParsedSchema(IF a = "Dragon" THEN DragonSchema(raw)
                        ELSE StarshipSchema(raw))

RECURSIVE SumSq(_)
SumSq(s) == IF s = <<>> THEN 0 ELSE Head(s) * Head(s) + SumSq(Tail(s))

If(cond, msg) == IF cond THEN <<msg>> ELSE <<>>
startswith(id, prefix) == Len(id) >= 1 /\ id[1] = prefix

\* abs(q_norm - 1.0) > 0.01, on components in hundredths
NotNormalized(q) == SumSq(q) < 99 * 99 \/ SumSq(q) > 101 * 101
QuaternionErrors(q) ==
  IF Len(q) # 4 THEN <<"Quaternion must have 4 components">>
  ELSE If(NotNormalized(q), "Quaternion not normalized")

\* the error list of DragonTelemetryAdapter.validate_schema
DragonErrors(s) ==
  LET position == s.position_eci.v
      velocity == s.velocity_eci.v
  IN  If(s.timestamp < 0, "Timestamp must be non-negative")
      \o If(~startswith(s.vehicle_id, "Dragon"), "Invalid vehicle ID format")
      \o (IF Len(position) # 3
          THEN <<"Position vector must have 3 components">>
          ELSE If(SumSq(position) > 0
                  /\ (SumSq(position) < 63 * 63 \/ SumSq(position) > 500 * 500),
                  "Position magnitude out of orbital range"))
      \o (IF Len(velocity) # 3
          THEN <<"Velocity vector must have 3 components">>
          ELSE If(SumSq(velocity) > 15 * 15,
                  "Velocity magnitude exceeds orbital"))
      \o QuaternionErrors(s.attitude_quaternion.v)
      \o If(s.cabin_temp_c < 0 - 50 \/ s.cabin_temp_c > 50,
            "Cabin temperature out of safe range")
      \o If(s.battery_soc_pct < 0 \/ s.battery_soc_pct > 100,
            "Battery SOC out of range")
      \o If(s.docking_status
              \notin {"SEPARATED", "APPROACH", "PROXIMITY", "DOCKED"},
            "Invalid docking status")

\* the error list of StarshipTelemetryAdapter.validate_schema
StarshipErrors(s) ==
  If(s.timestamp < 0, "Timestamp must be non-negative")
  \o If(~startswith(s.vehicle_id, "Starship"), "Invalid vehicle ID format")
  \o If(s.stage_id \notin {"Booster", "Ship"}, "Invalid stage ID")
  \o If(Len(s.position.v) # 3, "Position vector must have 3 components")
  \o If(Len(s.velocity.v) # 3, "Velocity vector must have 3 components")
  \o QuaternionErrors(s.attitude_quaternion.v)
  \o (IF s.mass_kg < 0 THEN <<"Vehicle mass must be non-negative">>
      ELSE If(s.mass_kg > 5000000, "Vehicle mass exceeds physical limits"))
  \o If(s.raptor_count < 0 \/ s.raptor_count > 50,
        "Invalid Raptor engine count")
  \o If(s.propellant_mass_kg < 0, "Propellant mass must be non-negative")
  \o If(s.flight_mode \notin {"PRELAUNCH", "ASCENT", "COAST", "REENTRY",
                               "DESCENT", "LANDING", "ABORT"},
        "Invalid flight mode")
  \o If(s.altitude_m < 0 - 500 \/ s.altitude_m > 200000,
        "Altitude out of range")
  \o If(s.mach_number < 0 \/ s.mach_number > 30, "Mach number out of range")
  \o If(s.flight_mode = "REENTRY" /\ s.heat_flux_kwpm2 < 0,
        "Heat flux must be non-negative")

\* a vector of the schema that len() raises TypeError on
Vectors(a, s) ==
  IF a = "Dragon" THEN <<s.position_eci, s.velocity_eci, s.attitude_quaternion>>
  ELSE <<s.position, s.velocity, s.attitude_quaternion>>
HasNoLen(a, s) == \E i \in 1..3 : ~Vectors(a, s)[i].seq

IsValid(errors) == Len(errors) = 0

\* validate_schema(telemetry) of adapter a: (is_valid, errors), or TypeError
validate_schema(a, s) ==
  IF HasNoLen(a, s)
  THEN [raised |-> "TypeError", is_valid |-> FALSE, errors |-> <<>>]
  ELSE LET errors == IF a = "Dragon" THEN DragonErrors(s)
                     ELSE StarshipErrors(s)
       IN  [raised |-> "", is_valid |-> IsValid(errors), errors |-> errors]

\* the classes `except Exception` catches
ExceptionClasses == {"ValueError", "TypeError"}

ErrorEntry(i, msg, arg) == [record |-> i, msg |-> msg, arg |-> arg]
RECURSIVE Prefixed(_, _)
\* [f"Record {i}: {err}" for err in validation_errors]
Prefixed(i, errs) ==
  IF errs = <<>> THEN <<>>
  ELSE <<ErrorEntry(i, Head(errs), "")>> \o Prefixed(i, Tail(errs))

OnExceptionSilent(acc, i, exc) == acc

\* the except clause of ingest_batch, for the exception exc of record i
OnException(acc, i, exc) ==
  IF exc.kind \in ExceptionClasses
  THEN [acc EXCEPT !.failed = @ + 1,
                   !.errors = Append(@, ErrorEntry(i, exc.msg, exc.arg))]
  ELSE [acc EXCEPT !.raised = exc.kind]

\* the body of the for loop of ingest_batch, for record raw at index i
IngestRecord(a, acc, i, raw) ==
  LET p == parse_telemetry(a, raw)
  IN  IF p.kind # "schema" THEN OnException(acc, i, p)
      ELSE LET v == validate_schema(a, p.schema[1])
           IN  IF v.raised # ""
               THEN OnException(acc, i,
                      [kind |-> v.raised, msg |-> "object has no len()",
                       arg |-> ""])
               ELSE IF v.is_valid THEN [acc EXCEPT !.successful = @ + 1]
               ELSE [acc EXCEPT !.failed = @ + 1,
                                !.errors = @ \o Prefixed(i, v.errors)]

RECURSIVE IngestLoop(_, _, _, _)
IngestLoop(a, batch, n, acc) ==
  IF n > Len(batch) \/ acc.raised # "" THEN acc
  ELSE IngestLoop(a, batch, n + 1, IngestRecord(a, acc, n - 1, batch[n]))

\* ingest_batch(raw_batch) of adapter a
ingest_batch(a, batch) ==
  IngestLoop(a, batch, 1,
             [raised |-> "", successful |-> 0, failed |-> 0, errors |-> <<>>])

\* ---- the raw records given to the adapters
Restrict(r, D) == [k \in D |-> r[k]]
Only(f, x) == [k \in {f} |-> x]
NoFields == [k \in {} |-> 0]

Timestamps == {Number(0 - 1), Number(0), Number(5), NotANumber}
VehicleIds == {<<"Dragon", "C208">>, <<"Starship", "S25">>, <<"Falcon", "9">>}
StageIds == {"Booster", "Ship", "Core"}

\* every way of giving or leaving out the required fields
RequiredParts ==
  {Restrict([timestamp |-> ts, vehicle_id |-> id, stage_id |-> st], D) :
     ts \in Timestamps, id \in VehicleIds, st \in StageIds,
     D \in SUBSET {"timestamp", "vehicle_id", "stage_id"}}

\* optional fields, in and out of the ranges validate_schema accepts
VectorParts ==
  {Only("position", x) :
     x \in {None, List(<<70, 0>>), List(<<1, 0, 0>>), List(<<70, 0, 0>>),
            List(<<600, 0, 0>>)}}
  \cup {Only("velocity", x) :
     x \in {None, List(<<7, 0>>), List(<<7, 0, 0>>), List(<<12, 12, 0>>)}}
  \cup {Only("attitude_q", x) :
     x \in {None, List(<<100, 0, 0>>), List(<<0, 100, 0, 0>>),
            List(<<70, 70, 0, 0>>), List(<<50, 0, 0, 0>>)}}
ScalarParts ==
  {Only("cabin_temp", x) : x \in {0 - 51, 50, 51}}
  \cup {Only("battery_soc", x) : x \in {0 - 1, 0, 101}}
  \cup {Only("docking_status", x) : x \in {"DOCKED", "UNKNOWN"}}
  \cup {Only("mass", x) : x \in {0 - 1, 5000000, 5000001}}
  \cup {Only("raptor_count", x) : x \in {0 - 1, 33, 51}}
  \cup {Only("propellant_mass", x) : x \in {0 - 1, 10}}
  \cup {Only("flight_mode", x) : x \in {"LANDING", "HOVER"}}
  \cup {Only("altitude", x) : x \in {0 - 501, 100, 200001}}
  \cup {Only("mach", x) : x \in {0 - 1, 31}}
  \cup {Only("flight_mode", "REENTRY") @@ Only("heat_flux", x) :
          x \in {0 - 1, 3}}
OptionalParts == {NoFields} \cup VectorParts \cup ScalarParts

RawRecords == {req @@ opt : req \in RequiredParts, opt \in OptionalParts}

\* the records batches are made of: the required fields given in full, in
\* part or with bad values, alone or with one optional part
BatchRequired ==
  {[timestamp |-> Number(5), vehicle_id |-> <<"Dragon", "C208">>],
   [timestamp |-> Number(0), vehicle_id |-> <<"Starship", "S25">>,
    stage_id |-> "Ship"],
   Only("timestamp", Number(5)),
   [timestamp |-> NotANumber, vehicle_id |-> <<"Dragon", "C208">>,
    stage_id |-> "Booster"],
   [timestamp |-> Number(0 - 1), vehicle_id |-> <<"Starship", "S25">>,
    stage_id |-> "Booster"]}
BatchOptional ==
  {NoFields, Only("position", None), Only("position", List(<<1, 0, 0>>)),
   Only("cabin_temp", 51), Only("raptor_count", 51),
   Only("flight_mode", "REENTRY") @@ Only("heat_flux", 0 - 1)}
BatchRecords == {req @@ opt : req \in BatchRequired, opt \in BatchOptional}

NoIngest == [adapter |-> "", raised |-> "", successful |-> 0, failed |-> 0,
             errors |-> <<>>]
NoParse == [adapter |-> "", raw |-> NoFields,
            result |-> RaisedError("none", "", "")]

\* a raw record is added to the batch to ingest
AppendRaw(raw) ==
  /\ ingested = NoIngest
  /\ Len(raw_batch) < MaxBatch
  /\ raw_batch' = Append(raw_batch, raw)
  /\ UNCHANGED <<ingested, parsed>>

\* ingest_batch(raw_batch) is called on adapter a
IngestBatch(a) ==
  /\ ingested = NoIngest
  /\ LET r == ingest_batch(a, raw_batch)
     IN  ingested' = [adapter |-> a, raised |-> r.raised,
                      successful |-> r.successful, failed |-> r.failed,
                      errors |-> r.errors]
  /\ UNCHANGED <<raw_batch, parsed>>

\* parse_telemetry(raw) is called on adapter a
ParseTelemetry(a, raw) ==
  /\ parsed = NoParse
  /\ parsed' = [adapter |-> a, raw |-> raw, result |-> parse_telemetry(a, raw)]
  /\ UNCHANGED <<raw_batch, ingested>>

TelemetryInit ==
  /\ raw_batch = <<>>
  /\ ingested = NoIngest
  /\ parsed = NoParse

\* an adapter given a batch of raw records to ingest
NextIngest ==
  \/ \E raw \in BatchRecords :
       AppendRaw(raw) /\ UNCHANGED <<graphVars, vmVars, cpVars, zoneVars, libVars>>
  \/ \E a \in Adapters :
       IngestBatch(a) /\ UNCHANGED <<graphVars, vmVars, cpVars, zoneVars, libVars>>

\* an adapter given raw records to parse
NextParse ==
  \E a \in Adapters, raw \in RawRecords :
    ParseTelemetry(a, raw) /\ UNCHANGED <<graphVars, vmVars, cpVars, zoneVars, libVars>>

\* ---- MemorySystem (qnx_agi/memory/base.py) ----

MaxCapacity == 2
MaxRecorded == 3
MemKeys == {"a", "b"}
MemVals == {1, 2}
Capacities == -1..MaxCapacity

\* deque(maxlen=n).append(x): a full deque drops its leftmost item
DequeAppendNewestDropped(buf, maxlen, x) ==
  IF Len(buf) = maxlen THEN buf ELSE Append(buf, x)
DequeAppend(buf, maxlen, x) ==
  IF Len(buf) = maxlen THEN Append(Tail(buf), x) ELSE Append(buf, x)

\* [v for k, v in self._buffer if k == key]
RECURSIVE recall(_, _)
recall(buf, key) ==
  IF buf = <<>> THEN <<>>
  ELSE IF Head(buf)[1] = key THEN <<Head(buf)[2]>> \o recall(Tail(buf), key)
       ELSE recall(Tail(buf), key)

\* None, where a pair is expected
NoPair == <<>>
\* self._buffer[-1] if self._buffer else None
latestOldest(buf) == IF buf # <<>> THEN buf[1] ELSE NoPair
latest(buf) == IF buf # <<>> THEN buf[Len(buf)] ELSE NoPair

MemCall(op, key, list, pair, raised) ==
  [op |-> op, key |-> key, list |-> list, pair |-> pair, raised |-> raised]
NoMemCall == MemCall("none", "", <<>>, NoPair, "")

\* MemorySystem(capacity=cap): the generated __init__ assigns the field and
\* __post_init__ refuses a capacity <= 0
MemorySystem(cap) ==
  /\ ~made
  /\ capacity' = cap
  /\ IF cap <= 0
     THEN /\ memCall' = MemCall("init", "", <<>>, NoPair, "ValueError")
          /\ UNCHANGED <<made, buffer, recorded>>
     ELSE /\ made' = TRUE
          /\ buffer' = <<>>
          /\ recorded' = <<>>
          /\ memCall' = MemCall("init", "", <<>>, NoPair, "")

\* record(key, value)
Record(key, value) ==
  /\ made /\ Len(recorded) < MaxRecorded
  /\ buffer' = DequeAppend(buffer, capacity, <<key, value>>)
  /\ recorded' = Append(recorded, <<key, value>>)
  /\ memCall' = MemCall("record", key, <<>>, NoPair, "")
  /\ UNCHANGED <<made, capacity>>

\* recall(key)
Recall(key) ==
  /\ made
  /\ memCall' = MemCall("recall", key, recall(buffer, key), NoPair, "")
  /\ UNCHANGED <<made, capacity, buffer, recorded>>

\* latest()
Latest ==
  /\ made
  /\ memCall' = MemCall("latest", "", <<>>, latest(buffer), "")
  /\ UNCHANGED <<made, capacity, buffer, recorded>>

\* clear()
Clear ==
  /\ made
  /\ buffer' = <<>>
  /\ recorded' = <<>>
  /\ memCall' = MemCall("clear", "", <<>>, NoPair, "")
  /\ UNCHANGED <<made, capacity>>

MemoryInit ==
  /\ made = FALSE
  /\ capacity = 0
  /\ buffer = <<>>
  /\ recorded = <<>>
  /\ memCall = NoMemCall

\* a MemorySystem constructed and then used
NextMemory ==
  \/ \E cap \in Capacities :
       MemorySystem(cap) /\ UNCHANGED <<graphVars, vmVars, cpVars, zoneVars, telVars, perVars, irVars>>
  \/ \E key \in MemKeys, value \in MemVals :
       Record(key, value) /\ UNCHANGED <<graphVars, vmVars, cpVars, zoneVars, telVars, perVars, irVars>>
  \/ \E key \in MemKeys :
       Recall(key) /\ UNCHANGED <<graphVars, vmVars, cpVars, zoneVars, telVars, perVars, irVars>>
  \/ Latest /\ UNCHANGED <<graphVars, vmVars, cpVars, zoneVars, telVars, perVars, irVars>>
  \/ Clear /\ UNCHANGED <<graphVars, vmVars, cpVars, zoneVars, telVars, perVars, irVars>>

\* ---- PerceptionLayer (qnx_agi/perception/base.py) ----

MaxRegistered == 3
MaxReturned == 3
ListenerNames == {"a", "b"}
\* the list object self._listeners, and the one a call of list() creates
ListenersObj == 1
CopyObj == 2
NoObj == 0

\* raw payloads of process(): a dict with one numeric and one other value,
\* and a value whose str() has five characters
Dict(items) == [isdict |-> TRUE, items |-> items, strlen |-> 0]
Text(n) == [isdict |-> FALSE, items |-> {}, strlen |-> n]
Raws ==
  {Dict({[k |-> "x", v |-> Number(1)], [k |-> "y", v |-> NotANumber]}),
   Text(5)}
Modalities == {"generic", "vision"}

\* _extract_features(raw)
extract_features(raw) ==
  IF raw.isdict
  THEN {[k |-> i.k, v |-> i.v.val] : i \in {x \in raw.items : x.v.num}}
  ELSE {[k |-> "length", v |-> raw.strlen]}

\* process(raw, modality)
process(raw, modality) ==
  <<[modality |-> modality, value |-> raw,
     features |-> extract_features(raw)]>>

\* register_listener(name), as the list afterwards
register_listenerAlways(lst, name) == Append(lst, name)
register_listener(lst, name) ==
  IF \A i \in 1..Len(lst) : lst[i] # name THEN Append(lst, name) ELSE lst

\* listeners(): list(self._listeners) is a new list object with the same
\* items; the memory afterwards and the object returned
listenersShared(h) == [heap |-> h, ref |-> ListenersObj]
listeners(h) ==
  [heap |-> [h EXCEPT ![CopyObj] = h[ListenersObj]], ref |-> CopyObj]

RegisterListener(name) ==
  /\ Len(registered) < MaxRegistered
  /\ heap' = [heap EXCEPT ![ListenersObj] = register_listener(@, name)]
  /\ registered' = Append(registered, name)
  /\ perCall' = "register_listener"
  /\ UNCHANGED <<returned, percepts>>

Process(raw, modality) ==
  /\ percepts' = process(raw, modality)
  /\ perCall' = "process"
  /\ UNCHANGED <<heap, returned, registered>>

Listeners ==
  /\ heap' = listeners(heap).heap
  /\ returned' = listeners(heap).ref
  /\ perCall' = "listeners"
  /\ UNCHANGED <<registered, percepts>>

\* the caller appends a name to the list listeners() gave it
MutateReturned(name) ==
  /\ returned # NoObj /\ Len(heap[returned]) < MaxReturned
  /\ heap' = [heap EXCEPT ![returned] = Append(@, name)]
  /\ perCall' = "mutate"
  /\ UNCHANGED <<returned, registered, percepts>>

PerceptionInit ==
  /\ heap = [o \in {ListenersObj, CopyObj} |-> <<>>]
  /\ returned = NoObj
  /\ registered = <<>>
  /\ percepts = <<>>
  /\ perCall = "none"

\* a PerceptionLayer and a caller of its methods
NextPerception ==
  \/ \E name \in ListenerNames :
       RegisterListener(name) /\ UNCHANGED <<graphVars, vmVars, cpVars, zoneVars, telVars, memVars, irVars>>
  \/ \E raw \in Raws, modality \in Modalities :
       Process(raw, modality) /\ UNCHANGED <<graphVars, vmVars, cpVars, zoneVars, telVars, memVars, irVars>>
  \/ Listeners /\ UNCHANGED <<graphVars, vmVars, cpVars, zoneVars, telVars, memVars, irVars>>
  \/ \E name \in ListenerNames \cup {"x"} :
       MutateReturned(name) /\ UNCHANGED <<graphVars, vmVars, cpVars, zoneVars, telVars, memVars, irVars>>

\* ---- IRBuilder (runtime/python/quasim/ir/ir_builder.py) ----

MaxIR == 3
MaxInputs == 2
MaxOptimize == 2
\* an op is its name, or the names a fused op was joined from
IROps == {<<"input">>, <<"add">>, <<"relu">>}
fusable_ops ==
  {<<"add">>, <<"mul">>, <<"sub">>, <<"div">>, <<"relu">>, <<"tanh">>}

\* IRNode(op=op, inputs=inputs), its outputs the default empty list
IRNode(op, inputs) == [op |-> op, inputs |-> inputs, outputs |-> <<>>]

Items(lst) == {lst[i] : i \in 1..Len(lst)}
\* [new if x is old else x for x in lst]
Replace(lst, old, new) ==
  [i \in 1..Len(lst) |-> IF lst[i] = old THEN new ELSE lst[i]]

\* the lists of nodes a caller of add_tensor_op may pass as inputs
InputLists(made_) ==
  UNION {[1..n -> 1..made_] : n \in 0..MaxInputs}

\* for inp in inputs: inp.outputs.append(node)
RECURSIVE AppendOutputs(_, _, _, _)
AppendOutputs(h, inputs, k, node) ==
  IF k > Len(inputs) THEN h
  ELSE AppendOutputs([h EXCEPT ![inputs[k]].outputs = Append(@, node)],
                     inputs, k + 1, node)

\* f"{parent.op}_{node.op}"
fused_op(parent, node) == parent.op \o node.op

\* the body of the fusion branch for the node at position node and its
\* parent: the objects afterwards, the fused node being the newest
FuseInto(h, parent, node) ==
  LET f == Len(h) + 1
      h1 == [n \in 1..Len(h) |->
               IF n \in Items(h[parent].inputs)
               THEN [h[n] EXCEPT !.outputs = Replace(@, parent, f)]
               ELSE h[n]]
      fused_node == [op |-> fused_op(h[parent], h[node]),
                     inputs |-> h[parent].inputs,
                     outputs |-> h1[node].outputs]
      h2 == [n \in 1..Len(h) |->
               IF n \in Items(h1[node].outputs)
               THEN [h1[n] EXCEPT !.inputs = Replace(@, node, f)]
               ELSE h1[n]]
  IN  Append(h2, fused_node)

\* whether the loop fuses the node with its only input
Fusable(h, node, replaced) ==
  /\ h[node].op \in fusable_ops /\ Len(h[node].inputs) = 1
  /\ LET parent == h[node].inputs[1]
     IN  /\ h[parent].op \in fusable_ops
         /\ Len(h[parent].outputs) = 1
         /\ parent \notin replaced

\* _fuse_elementwise_ops(), from position i of self.nodes on
RECURSIVE fuse_elementwise_ops(_, _, _, _, _, _)
fuse_elementwise_ops(ns, i, h, fused_nodes, replaced, fus) ==
  IF i > Len(ns)
  THEN [irNodes |-> h, nodes |-> fused_nodes, fusions |-> fus]
  ELSE LET node == ns[i] IN
       IF node \in replaced
       THEN fuse_elementwise_ops(ns, i + 1, h, fused_nodes, replaced, fus)
       ELSE IF Fusable(h, node, replaced)
       THEN LET parent == h[node].inputs[1] IN
            fuse_elementwise_ops(ns, i + 1, FuseInto(h, parent, node),
              Append(fused_nodes, Len(h) + 1),
              replaced \cup {parent, node},
              fus \cup {<<parent, node, Len(h) + 1>>})
       ELSE fuse_elementwise_ops(ns, i + 1, h, Append(fused_nodes, node),
                                 replaced, fus)

\* add_tensor_op(op, inputs)
AddTensorOp(op, inputs) ==
  /\ Len(irNodes) < MaxIR
  /\ LET node == Len(irNodes) + 1 IN
     /\ irNodes' = AppendOutputs(Append(irNodes, IRNode(op, inputs)),
                                 inputs, 1, node)
     /\ nodes' = Append(nodes, node)
  /\ UNCHANGED <<fusion_enabled, optimized, nodesBefore, fusionRan, fusions>>

\* enable_fusion(enable)
EnableFusion(enable) ==
  /\ fusion_enabled' = enable
  /\ UNCHANGED <<irNodes, nodes, optimized, nodesBefore, fusionRan, fusions>>

\* optimize()
Optimize ==
  /\ optimized < MaxOptimize
  /\ optimized' = optimized + 1
  /\ nodesBefore' = nodes
  /\ fusionRan' = fusion_enabled
  /\ IF fusion_enabled
     THEN LET r == fuse_elementwise_ops(nodes, 1, irNodes, <<>>, {}, {})
          IN  /\ irNodes' = r.irNodes
              /\ nodes' = r.nodes
              /\ fusions' = r.fusions
     ELSE /\ fusions' = {}
          /\ UNCHANGED <<irNodes, nodes>>
  /\ UNCHANGED fusion_enabled

IRInit ==
  /\ irNodes = <<>>
  /\ nodes = <<>>
  /\ fusion_enabled = TRUE
  /\ optimized = 0
  /\ nodesBefore = <<>>
  /\ fusionRan = FALSE
  /\ fusions = {}

\* an IRBuilder given tensor operations and then optimised
NextIR ==
  \/ \E op \in IROps, inputs \in InputLists(Len(irNodes)) :
       AddTensorOp(op, inputs) /\ UNCHANGED <<graphVars, vmVars, cpVars, zoneVars, telVars, memVars, perVars>>
  \/ \E enable \in BOOLEAN :
       EnableFusion(enable) /\ UNCHANGED <<graphVars, vmVars, cpVars, zoneVars, telVars, memVars, perVars>>
  \/ Optimize /\ UNCHANGED <<graphVars, vmVars, cpVars, zoneVars, telVars, memVars, perVars>>

VMInit ==
  /\ constructed = [v \in Inst |-> FALSE]
  /\ operators = [v \in Inst |-> EmptyDict]
  /\ tick = [v \in Inst |-> 0]
  /\ trace = [v \in Inst |-> <<>>]
  /\ pc = [v \in Inst |-> "idle"]
  /\ order = [v \in Inst |-> <<>>]
  /\ idx = [v \in Inst |-> 1]
  /\ local = [v \in Inst |-> <<>>]
  /\ state = [v \in Inst |-> 0]
  /\ outcome = [v \in Inst |-> NoOutcome]
  /\ runStart = [v \in Inst |-> NoRunStart]
  /\ invoked = [v \in Inst |-> <<>>]
  /\ runLog = [v \in Inst |-> <<>>]
  /\ built = [v \in Inst |-> <<>>]
  /\ replayed = [v \in Inst |-> <<>>]

GraphInit ==
  /\ edges = [g \in Inst |-> EmptyDict]
  /\ reverse = [g \in Inst |-> EmptyDict]
  /\ calls = [g \in Inst |-> <<>>]
  /\ topoResult = [g \in Inst |-> NoResult]

LibInit == MemoryInit /\ PerceptionInit /\ IRInit
CompInit == CheckpointInit /\ ZoneInit /\ TelemetryInit /\ LibInit

InitGraph == GraphInit /\ VMInit /\ CompInit

\* the graphs a GraphVM is run on here are built by at most two add_edge calls
SmallGraph(g) == Len(calls[g]) < 2

\* one graph, built before the GraphVM is constructed on it, and the VM
\* executing run() and replay_buffer() calls one at a time
Init == InitGraph

Next ==
  \/ \E src \in Nodes, dst \in Nodes :
       SmallGraph(1) /\ ~constructed[1] /\ AddEdge(1, src, dst, MaxEdges)
  \/ \E lib \in Libraries(DOMAIN edges[1]) : Construct(1, lib)
  \/ \E s0 \in InitStates : RunStart(1, s0)
  \/ RunStep(1)
  \/ ReplayBuffer(1)

Spec == Init /\ [][Next]_vars

\* run() is a sequential loop: once it has started nothing but the end of
\* the call stops it from taking its next iteration
SpecLive == Init /\ [][Next]_vars /\ WF_vars(RunStep(1))

NextGraph ==
  \/ \E src \in Nodes, dst \in Nodes : AddEdge(1, src, dst, MaxEdges)
  \/ Topological(1)

SpecGraph == InitGraph /\ [][NextGraph]_vars

\* two GraphVM instances, freshly constructed on two graphs built by the same
\* add_edge calls, with the same operator library; each executes its first
\* run() call, the two calls interleaved at operator granularity
\* one graph and one GraphVM holding a reference to it (self._graph = graph),
\* with add_edge callable on the graph before and after the VM is constructed
NextLate ==
  \/ \E src \in Nodes, dst \in Nodes :
       SmallGraph(1) /\ AddEdge(1, src, dst, MaxEdges)
  \/ \E lib \in Libraries(DOMAIN edges[1]) : Construct(1, lib)
  \/ \E s0 \in InitStates : RunStart(1, s0)
  \/ RunStep(1)

SpecLate == Init /\ [][NextLate]_vars

SpecCheckpoint == Init /\ [][NextCheckpoint]_vars

SpecIngest == Init /\ [][NextIngest]_vars
SpecParse == Init /\ [][NextParse]_vars
SpecMemory == Init /\ [][NextMemory]_vars
SpecPerception == Init /\ [][NextPerception]_vars
SpecIR == Init /\ [][NextIR]_vars

FirstRun(v) == runLog[v] = <<>>

\* both graphs built by the same add_edge calls, one of S, and a fresh VM
\* constructed on each with the same operator library
InitBuilt(S) ==
  \E s \in S :
    \E lib \in Libraries(NodesOf(s)) :
      /\ edges = [g \in Inst |-> Build(s).edges]
      /\ reverse = [g \in Inst |-> Build(s).reverse]
      /\ calls = [g \in Inst |-> s]
      /\ topoResult = [g \in Inst |-> NoResult]
      /\ constructed = [v \in Inst |-> TRUE]
      /\ operators = [v \in Inst |-> lib]
      /\ tick = [v \in Inst |-> InitialTick(v)]
      /\ trace = [v \in Inst |-> <<>>]
      /\ pc = [v \in Inst |-> "idle"]
      /\ order = [v \in Inst |-> <<>>]
      /\ idx = [v \in Inst |-> 1]
      /\ local = [v \in Inst |-> <<>>]
      /\ state = [v \in Inst |-> 0]
      /\ outcome = [v \in Inst |-> NoOutcome]
      /\ runStart = [v \in Inst |-> NoRunStart]
      /\ invoked = [v \in Inst |-> <<>>]
      /\ runLog = [v \in Inst |-> <<>>]
      /\ built = [v \in Inst |-> s]
      /\ replayed = [v \in Inst |-> <<>>]
      /\ CompInit

InitTwo == InitBuilt({q \in EdgeSeqs : Len(q) <= 2})

NextTwo ==
  \/ \E v \in Inst, s0 \in InitStates : FirstRun(v) /\ RunStart(v, s0)
  \/ \E v \in Inst : RunStep(v)

SpecTwo == InitTwo /\ [][NextTwo]_vars

\* a GraphVM run on the graph n1 -> n2 while operators of the zones succeed
\* or fault and zones are reset
InitZones == InitBuilt({<<<<1, 2>>>>})

NextZones ==
  \/ \E z \in Zones, raised \in BOOLEAN :
       ZoneExecute(z, raised)
       /\ UNCHANGED <<graphVars, vmVars, cpVars, telVars, libVars>>
  \/ \E z \in Zones :
       ZoneReset(z) /\ UNCHANGED <<graphVars, vmVars, cpVars, telVars, libVars>>
  \/ \E s0 \in InitStates : FirstRun(1) /\ RunStart(1, s0)
  \/ RunStep(1)

SpecZones == InitZones /\ [][NextZones]_vars

\* ----------------------------------------------------------------- claims
\* nodes reachable from the set S along 1..k edges of ES
RECURSIVE ReachFrom(_, _, _)
ReachFrom(ES, S, k) ==
  IF k = 0 THEN {}
  ELSE LET step == {e[2] : e \in {x \in ES : x[1] \in S}}
       IN  step \cup ReachFrom(ES, step, k - 1)
\* the (transitive) dependents of node n
Descendants(ES, n) == ReachFrom(ES, {n}, MaxNode)
Cyclic(ES) == \E n \in Nodes : n \in Descendants(ES, n)

\* position of node n in sequence ord (0 when absent)
PosIn(ord, n) ==
  IF \E i \in 1..Len(ord) : ord[i] = n
  THEN CHOOSE i \in 1..Len(ord) : ord[i] = n ELSE 0
Occurrences(ord, n) == Cardinality({i \in 1..Len(ord) : ord[i] = n})

\* C1: two graphs whose add_edge calls yield the same acyclic edge set return
\* the identical topological sequence, whatever the order of the calls.
C1_InsertionOrderIndependent ==
  topoResult[1].ok =>
    \A s \in EdgeSeqs :
      EdgeSet(s) = EdgeSet(calls[1]) =>
        LET g == Build(s) IN topological(g.edges, g.reverse) = topoResult[1]

C3_TopologicalOrderValid ==
  (topoResult[1] # NoResult /\ ~Cyclic(EdgeSet(calls[1]))) =>
    /\ topoResult[1].ok
    /\ \A n \in Nodes :
         Occurrences(topoResult[1].order, n)
           = (IF n \in NodesOf(calls[1]) THEN 1 ELSE 0)
    /\ \A e \in EdgeSet(calls[1]) :
         PosIn(topoResult[1].order, e[1]) < PosIn(topoResult[1].order, e[2])

\* an acyclic three-node graph with a repeated edge has been sorted
C3_Witness ==
  /\ topoResult[1].ok
  /\ Len(topoResult[1].order) = 3
  /\ \E i, j \in 1..Len(calls[1]) : i # j /\ calls[1][i] = calls[1][j]

\* ------------------------------------------------------------ GraphVM claims
\* every node of the graph names a registered operator that succeeds
AllSucceed(lib, s) ==
  \A n \in NodesOf(s) : n \in DOMAIN lib /\ lib[n] = "incr"

\* C4: the first run() of a fresh GraphVM over an acyclic graph of N nodes
\* whose operators are all registered and succeed returns N records, the i-th
\* carrying tick i (from 0) and the i-th operator of the topological order.
C4_FreshRunTicks ==
  (Len(runLog[1]) >= 1 /\ ~Cyclic(EdgeSet(runLog[1][1].start.calls))
     /\ AllSucceed(operators[1], runLog[1][1].start.calls)) =>
    LET run1 == runLog[1][1]
        tr == run1.outcome.trace
        g == Build(run1.start.calls)
        topo == topological(g.edges, g.reverse).order
    IN  /\ run1.outcome.kind = "returned"
        /\ Len(tr) = Cardinality(NodesOf(run1.start.calls))
        /\ Len(tr) = Len(topo)
        /\ \A i \in 1..Len(tr) : tr[i].tick = i - 1 /\ tr[i].op = topo[i]

\* the chain n1 -> n2 -> n3 has been run on a fresh VM and returned 3 records
C4_Witness ==
  /\ Len(runLog[1]) >= 1
  /\ runLog[1][1].start.calls = <<<<1, 2>>, <<2, 3>>>>
  /\ runLog[1][1].outcome.kind = "returned"
  /\ Len(runLog[1][1].outcome.trace) = 3

\* both instances have finished their run() call
BothDone == \A v \in Inst : runLog[v] # <<>> /\ pc[v] = "idle"
SameInputs ==
  /\ calls[1] = calls[2]
  /\ operators[1] = operators[2]
  /\ runStart[1].state = runStart[2].state

\* C5: two fresh GraphVM instances with graphs built by the same add_edge
\* calls, the same operators and equal initial states return identical traces
\* (tick, operator, result in every position) and identical replay buffers.
C5_ReplayAcrossInstances ==
  (BothDone /\ SameInputs) =>
    /\ outcome[1] = outcome[2]
    /\ replay_buffer(1) = replay_buffer(2)

\* both instances returned a trace of at least two records from equal inputs
C5_Witness ==
  /\ BothDone /\ SameInputs
  /\ outcome[1].kind = "returned" /\ Len(outcome[1].trace) >= 2
  /\ outcome[2].kind = "returned"

\* runs k and k+1 of VM 1 were given the same graph and equal initial states
SameRunInputs(k) ==
  /\ runLog[1][k].start.calls = runLog[1][k + 1].start.calls
  /\ runLog[1][k].start.state = runLog[1][k + 1].start.state

\* C6 (as stated): two successive run() calls on one instance with the same
\* graph and initial state return identical traces, tick values included.
C6_SameInstanceIdenticalTraces ==
  \A k \in 1..(Len(runLog[1]) - 1) :
    SameRunInputs(k) => runLog[1][k].outcome = runLog[1][k + 1].outcome

\* C6 (amended): the two traces agree in operator and result at every
\* position, and each tick of the second is the tick of the first plus the
\* number of records the first run returned (the tick is never reset).
C6_SameInstanceShiftedTicks ==
  \A k \in 1..(Len(runLog[1]) - 1) :
    SameRunInputs(k) =>
      LET a == runLog[1][k].outcome
          b == runLog[1][k + 1].outcome
      IN  /\ a.kind = b.kind /\ a.name = b.name
          /\ Len(a.trace) = Len(b.trace)
          /\ \A i \in 1..Len(a.trace) :
               /\ a.trace[i].op = b.trace[i].op
               /\ a.trace[i].result = b.trace[i].result
               /\ b.trace[i].tick = a.trace[i].tick + Len(a.trace)

\* two successive runs with equal inputs both returned at least two records
C6_Witness ==
  /\ Len(runLog[1]) >= 2
  /\ SameRunInputs(1)
  /\ runLog[1][1].outcome.kind = "returned"
  /\ Len(runLog[1][1].outcome.trace) >= 2
  /\ runLog[1][2].outcome.kind = "returned"

\* C7: an unregistered operator name fails the VM at bind time: when the error
\* is raised no operator of that run has executed, no trace entry has been
\* recorded and the tick has not advanced.
C7_UnknownOperatorBeforeExecution ==
  (pc[1] = "idle" /\ outcome[1].kind = "KeyError") =>
    /\ invoked[1] = <<>>
    /\ Len(trace[1]) = runStart[1].traceLen
    /\ tick[1] = runStart[1].tick

\* C8: whenever an operator's execute raises during run(), a Fault entry
\* naming that operator and carrying its tick is appended to the VM's trace.
C8_FaultRecordedInTrace ==
  (pc[1] = "idle" /\ outcome[1].kind = "OperatorError") =>
    \E i \in (runStart[1].traceLen + 1)..Len(trace[1]) :
      /\ trace[1][i].kind = "fault"
      /\ trace[1][i].payload.op = outcome[1].name
      /\ trace[1][i].payload.tick = tick[1]

\* the operators the last run() of VM 1 executed and recorded
RecordedOps ==
  {trace[1][i].payload.op : i \in (runStart[1].traceLen + 1)..Len(trace[1])}
InvokedOps == {invoked[1][i].op : i \in 1..Len(invoked[1])}

\* C9: when an operator faults, every operator that is not a (transitive)
\* dependent of it (each operator being its own zone) is still executed in
\* that run and recorded Ok, while the dependents are skipped.
C9_ZoneContainment ==
  (pc[1] = "idle" /\ outcome[1].kind = "OperatorError"
     /\ \A n \in NodesOf(calls[1]) \ {outcome[1].name} :
          n \in DOMAIN operators[1] /\ operators[1][n] = "incr") =>
    \A n \in NodesOf(calls[1]) \ {outcome[1].name} :
      IF n \in Descendants(EdgeSet(calls[1]), outcome[1].name)
      THEN n \notin InvokedOps
      ELSE n \in InvokedOps /\ n \in RecordedOps

\* the declared safety constraint: observable x of the state within [lo, hi]
SafetyConstraints == [x |-> [lo |-> 0, hi |-> 1]]
WithinConstraints(s) ==
  SafetyConstraints.x.lo <= s /\ s <= SafetyConstraints.x.hi

\* C10: run() never invokes an operator's execute while the constrained
\* variable of the state lies outside its declared interval.
C10_NoExecuteOutsideInterval ==
  \A i \in 1..Len(invoked[1]) : WithinConstraints(invoked[1][i].pre)

\* C11: replay_buffer() is a pure projection of the trace: it executes no
\* operator, changes neither the tick nor the trace, and two consecutive
\* calls with no run in between return equal sequences.
C11_ReplayBufferPure ==
  [][Len(replayed'[1]) > Len(replayed[1]) =>
       LET buf == replayed'[1][Len(replayed'[1])] IN
       /\ tick' = tick /\ trace' = trace
       /\ invoked' = invoked /\ state' = state
       /\ Len(buf) = Len(trace[1])
       /\ \A i \in 1..Len(buf) :
            /\ buf[i] = trace[1][i].payload
            /\ DOMAIN buf[i] = {"tick", "op", "result"}
       /\ replayed[1] # <<>> => buf = replayed[1][Len(replayed[1])]]_vars

\* replay_buffer() has been called twice in a row on a trace of two records
C11_Witness ==
  /\ Len(replayed[1]) = 2
  /\ Len(replayed[1][2]) >= 2

\* run(state, goal) executed with nothing else running, as a fold over the
\* order: the outcome of the call, the tick after it and the records made
RECURSIVE AloneLoop(_, _, _, _, _, _)
AloneLoop(ord, i, lib, st, tk, tr) ==
  IF i > Len(ord)
  THEN [outcome |-> ReturnedTrace(tr), tick |-> tk, buffer |-> tr]
  ELSE LET name == ord[i]
           op == Get(lib, name, "none")
       IN  IF op = "none"
           THEN [outcome |-> RaisedIn("KeyError", name), tick |-> tk,
                 buffer |-> tr]
           ELSE LET r == Execute(op, st) IN
                IF r.raised
                THEN [outcome |-> RaisedIn("OperatorError", name), tick |-> tk,
                      buffer |-> tr]
                ELSE AloneLoop(ord, i + 1, lib, r.state, NextTick(tk),
                       Append(tr, [tick |-> tk, op |-> name,
                                   result |-> r.result]))

\* the first run of a fresh VM on the graph built by the calls s, run alone
RunAlone(s, lib, s0) ==
  LET g == Build(s)
      r == topological(g.edges, g.reverse)
  IN  IF r.ok THEN AloneLoop(r.order, 1, lib, s0, 0, <<>>)
      ELSE [outcome |-> RaisedIn(r.err, NoNode), tick |-> 0, buffer |-> <<>>]

Started(v) == pc[v] = "running" \/ runLog[v] # <<>>

\* C12: two GraphVM instances sharing a read-only operator library but no
\* mutable state run concurrently; under every interleaving of their
\* operator executions each instance's returned trace, ticks and replay
\* buffer equal those of the same run made alone (and, while the run is
\* still going, are a prefix of them).
C12_ConcurrentEqualsAlone ==
  \A v \in Inst :
    Started(v) =>
      LET a == RunAlone(calls[v], operators[v], runStart[v].state)
          n == Len(replay_buffer(v))
      IN  /\ replay_buffer(v) = SubSeq(a.buffer, 1, n)
          /\ n <= Len(a.buffer)
          /\ local[v] = replay_buffer(v)
          /\ tick[v] = n
          /\ pc[v] = "idle" =>
               /\ outcome[v] = a.outcome
               /\ tick[v] = a.tick
               /\ replay_buffer(v) = a.buffer

\* both instances are in the middle of their runs at the same time, each
\* having executed an operator, on different initial states
C12_Witness ==
  /\ \A v \in Inst : pc[v] = "running" /\ idx[v] = 2 /\ Len(order[v]) = 3
  /\ runStart[1].state # runStart[2].state
  /\ operators[1] = operators[2]

\* the order topological() returns on the graph built by the calls s
OrderOf(s) == topological(Build(s).edges, Build(s).reverse)

\* C13: once a GraphVM has been constructed on a graph the graph is frozen:
\* add_edge calls made on it afterwards do not change the set or order of
\* operators a later run of that VM iterates over, which stay those of the
\* graph the VM was constructed on.
C13_GraphFrozenAfterConstruction ==
  (constructed[1] /\ Started(1)) =>
    /\ order[1] = OrderOf(built[1]).order
    /\ \A i \in 1..Len(invoked[1]) :
         i <= Len(OrderOf(built[1]).order)
         /\ invoked[1][i].op = OrderOf(built[1]).order[i]

\* C14: in every state reachable by add_edge calls the graph contains no
\* cycle (an add_edge that would close one is rejected and leaves the graph
\* unchanged).
C14_GraphNeverCyclic == ~Cyclic(EdgeSet(calls[1]))

\* C15: for every tick whose checkpoint is still retained, restore(tick)
\* either returns a snapshot exactly equal to the state given to
\* take(tick, state) or raises CheckpointCorruptionError, which it does only
\* when stored data no longer matches its content hash; it never returns a
\* state different from the one taken.
C15_RestoreRoundTrip ==
  /\ restored.kind \in {"none", "snapshot", "CheckpointCorruptionError"}
  /\ (restored.kind = "snapshot" /\ restored.tick \in Retained(checkpoints))
       => restored.snapshot = taken[restored.tick]
  /\ \A t \in Retained(checkpoints) :
       LET r == restore(checkpoints, t) IN
       /\ r.kind = "snapshot" => r.snapshot = taken[t]
       /\ r.kind = "CheckpointCorruptionError" => checkpoints # intact
       /\ checkpoints = intact => r.kind = "snapshot"

\* after a pruning, restore returned the two-key state taken at a tick whose
\* checkpoint is stored as a delta, while a retained checkpoint is corrupted
C15_Witness ==
  /\ restored.kind = "snapshot"
  /\ DOMAIN restored.snapshot = Keys
  /\ restored.tick \in Retained(checkpoints)
  /\ ~checkpoints[IndexOf(checkpoints, restored.tick)].full
  /\ Cardinality(DOMAIN taken) > RetentionDepth
  /\ checkpoints # intact

\* C16: a tripped fault-isolation zone stays Tripped through every later
\* operator execution, tick advance and run until an explicit reset call is
\* made on it: a step that takes a zone from Tripped to Closed is a reset
\* call on that zone.
C16_TrippedUntilReset ==
  [][\A z \in Zones :
       (zoneState[z] = "Tripped" /\ zoneState'[z] = "Closed") =>
         /\ resets'[z] = resets[z] + 1
         /\ tick' = tick /\ trace' = trace /\ pc' = pc]_vars

\* zone A is still Tripped, never having been reset, after the VM has run to
\* the end and zone B has been tripped and reset
C16_Witness ==
  /\ zoneState["A"] = "Tripped" /\ resets["A"] = 0
  /\ zoneState["B"] = "Closed" /\ trips["B"] >= 1 /\ resets["B"] >= 1
  /\ runLog[1] # <<>> /\ tick[1] = 2

\* record raw fails parsing or validation on adapter a
FailsParsing(a, raw) == parse_telemetry(a, raw).kind # "schema"
FailsValidation(a, raw) ==
  /\ ~FailsParsing(a, raw)
  /\ LET v == validate_schema(a, parse_telemetry(a, raw).schema[1])
     IN  v.raised # "" \/ ~v.is_valid
Fails(a, raw) == FailsParsing(a, raw) \/ FailsValidation(a, raw)
ErrorsOf(i) ==
  {k \in 1..Len(ingested.errors) : ingested.errors[k].record = i - 1}

\* C17: for both adapters ingest_batch never raises on a bad record and
\* returns (successful, failed, errors) with successful + failed equal to the
\* batch length; a record that fails parsing or validation is counted failed
\* (with an error message) and the records after it are still processed;
\* errors is empty exactly when failed is 0.
C17_IngestBatchCounts ==
  ingested # NoIngest =>
    LET n == Len(raw_batch)
        bad == {i \in 1..n : Fails(ingested.adapter, raw_batch[i])}
    IN  /\ ingested.raised = ""
        /\ ingested.successful + ingested.failed = n
        /\ ingested.failed = Cardinality(bad)
        /\ \A i \in 1..n : (i \in bad) <=> (ErrorsOf(i) # {})
        /\ (ingested.errors = <<>>) <=> (ingested.failed = 0)

\* a batch whose first record fails parsing and whose second is valid was
\* ingested: one failed, one successful
C17_Witness ==
  /\ ingested # NoIngest /\ Len(raw_batch) = 2
  /\ FailsParsing(ingested.adapter, raw_batch[1])
  /\ ~Fails(ingested.adapter, raw_batch[2])
  /\ ingested.successful = 1 /\ ingested.failed = 1

\* the first required field missing from raw, in the order timestamp,
\* vehicle_id, then stage_id for Starship ("" when none is missing)
FirstAbsent(a, raw) ==
  IF "timestamp" \notin DOMAIN raw THEN "timestamp"
  ELSE IF "vehicle_id" \notin DOMAIN raw THEN "vehicle_id"
  ELSE IF a = "Starship" /\ "stage_id" \notin DOMAIN raw THEN "stage_id"
  ELSE ""

\* C18: parse_telemetry raises ValueError('Missing required field: <name>')
\* whenever a required field is absent from the raw record, naming the first
\* missing field in the order timestamp, vehicle_id (then stage_id for
\* Starship), and returns a schema object only when all are present.
C18_MissingRequiredField ==
  parsed # NoParse =>
    LET first == FirstAbsent(parsed.adapter, parsed.raw)
        r == parsed.result
    IN  /\ first # "" =>
             /\ r.kind = "ValueError"
             /\ r.msg = "Missing required field" /\ r.arg = first
             /\ r.schema = <<>>
        /\ r.kind = "schema" => first = "" /\ Len(r.schema) = 1
        /\ r.kind \in {"schema", "ValueError"}

\* the Starship adapter was given a record with a timestamp but neither
\* vehicle_id nor stage_id, and named vehicle_id
C18_Witness ==
  /\ parsed.adapter = "Starship"
  /\ "timestamp" \in DOMAIN parsed.raw
  /\ "vehicle_id" \notin DOMAIN parsed.raw
  /\ "stage_id" \notin DOMAIN parsed.raw
  /\ parsed.result.arg = "vehicle_id"

\* raw holds only the required fields of adapter a, with a non-negative
\* timestamp, a vehicle id carrying the adapter's prefix and, for Starship,
\* a stage id of Booster or Ship
MinimalValid(a, raw) ==
  /\ DOMAIN raw = IF a = "Dragon" THEN {"timestamp", "vehicle_id"}
                  ELSE {"timestamp", "vehicle_id", "stage_id"}
  /\ raw["timestamp"].num /\ raw["timestamp"].val >= 0
  /\ raw["vehicle_id"][1] = a
  /\ a = "Starship" => raw["stage_id"] \in {"Booster", "Ship"}

\* C19: for both adapters a raw record holding only the required fields,
\* with valid values, is parsed with defaults that all pass validate_schema,
\* so ingest_batch counts it as successful; validate_schema returns
\* is_valid = true exactly when its error list is empty.
C19_MinimalRecordValid ==
  ingested # NoIngest =>
    LET a == ingested.adapter
        n == Len(raw_batch)
        minimal == {i \in 1..n : MinimalValid(a, raw_batch[i])}
    IN  /\ \A i \in minimal :
             LET p == parse_telemetry(a, raw_batch[i])
             IN  /\ p.kind = "schema"
                 /\ validate_schema(a, p.schema[1]) =
                      [raised |-> "", is_valid |-> TRUE, errors |-> <<>>]
                 /\ ErrorsOf(i) = {}
        /\ ingested.successful >= Cardinality(minimal)
        /\ minimal = 1..n => ingested.successful = n /\ ingested.failed = 0
        /\ \A i \in 1..n :
             ~FailsParsing(a, raw_batch[i]) =>
               LET v == validate_schema(a,
                          parse_telemetry(a, raw_batch[i]).schema[1])
               IN  v.raised = "" => (v.is_valid <=> v.errors = <<>>)

\* a batch of a minimal record and one failing validation was ingested, the
\* minimal one counted successful
C19_Witness ==
  /\ ingested # NoIngest /\ Len(raw_batch) = 2
  /\ FailsValidation(ingested.adapter, raw_batch[1])
  /\ MinimalValid(ingested.adapter, raw_batch[2])
  /\ ingested.successful = 1 /\ ErrorsOf(1) # {} /\ ErrorsOf(2) = {}

\* the nodes of the graph built by the calls s that no edge points to
Roots(s) == {n \in NodesOf(s) : \A e \in EdgeSet(s) : e[2] # n}

\* C20: for every acyclic graph the sequence topological() returns begins
\* with all zero-in-degree nodes, in ascending order of identifier, before
\* any node that has a predecessor.
C20_RootsFirstAscending ==
  (topoResult[1] # NoResult /\ ~Cyclic(EdgeSet(calls[1]))) =>
    LET ord == topoResult[1].order
        k == Cardinality(Roots(calls[1]))
    IN  /\ topoResult[1].ok /\ k <= Len(ord)
        /\ \A i \in 1..k : ord[i] \in Roots(calls[1])
        /\ \A i, j \in 1..k : i < j => ord[i] < ord[j]
        /\ \A i \in (k + 1)..Len(ord) : ord[i] \notin Roots(calls[1])

\* a graph whose two roots were added in descending order, both pointing to
\* a third node, has been sorted
C20_Witness ==
  /\ topoResult[1].ok
  /\ calls[1] = <<<<3, 2>>, <<1, 2>>>>
  /\ topoResult[1].order = <<1, 3, 2>>

\* the predecessors of node n in the graph built by the calls s
Preds(s, n) == {e[1] : e \in {x \in EdgeSet(s) : x[2] = n}}

\* C21: the nodes that become ready when one node is popped are inserted
\* into the ready queue in ascending order of identifier: two successors
\* whose only predecessor is the same node appear in the result in ascending
\* order, whatever order their edges were added in.
C21_NewlyReadySorted ==
  (topoResult[1] # NoResult /\ topoResult[1].ok) =>
    \A a, b \in NodesOf(calls[1]) :
      (a < b /\ Preds(calls[1], a) = Preds(calls[1], b)
             /\ Cardinality(Preds(calls[1], a)) = 1) =>
        PosIn(topoResult[1].order, a) < PosIn(topoResult[1].order, b)

\* the forward and reverse maps agree with each other and with the calls made
MapsAgree ==
  /\ DOMAIN edges[1] = NodesOf(calls[1])
  /\ DOMAIN reverse[1] = NodesOf(calls[1])
  /\ \A src, dst \in NodesOf(calls[1]) :
       /\ Occurrences(edges[1][src], dst) = Occurrences(reverse[1][dst], src)
       /\ Occurrences(edges[1][src], dst) = Occurrences(calls[1], <<src, dst>>)

\* every list of the map before is a prefix of its list in the map after
Grows(before, after) ==
  \A n \in DOMAIN before :
    /\ n \in DOMAIN after
    /\ Len(before[n]) <= Len(after[n])
    /\ SubSeq(after[n], 1, Len(before[n])) = before[n]

\* C22: after any sequence of add_edge calls the forward and reverse maps
\* have the same key set, every identifier ever passed as src or dst; dst
\* occurs in forward[src] as often as src occurs in reverse[dst]; add_edge
\* never removes a node or an edge, and topological() leaves both maps
\* unchanged.
C22_MapsConsistent ==
  /\ []MapsAgree
  /\ [][/\ Grows(edges[1], edges'[1]) /\ Grows(reverse[1], reverse'[1])
        /\ topoResult'[1] # NoResult =>
             edges' = edges /\ reverse' = reverse]_vars

\* topological() has run on a graph holding a self-loop and a repeated edge
C22_Witness ==
  /\ topoResult[1] # NoResult
  /\ \E i \in 1..Len(calls[1]) : calls[1][i][1] = calls[1][i][2]
  /\ \E i, j \in 1..Len(calls[1]) :
       i # j /\ calls[1][i] = calls[1][j] /\ calls[1][i][1] # calls[1][i][2]

\* C23: over any sequence of run calls on one GraphVM, runs aborted by an
\* exception included, the ticks of the entries of the VM's trace are
\* 0, 1, 2, ... in recording order, and the VM's tick equals the number of
\* entries recorded so far.
C23_TicksCountEntries ==
  constructed[1] =>
    /\ tick[1] = Len(trace[1])
    /\ \A i \in 1..Len(trace[1]) :
         trace[1][i].kind = "execute" /\ trace[1][i].payload.tick = i - 1

\* a run that recorded an entry and was then aborted by an exception has
\* been followed by a run that recorded more
C23_Witness ==
  /\ Len(runLog[1]) = 2
  /\ runLog[1][1].outcome.kind \in {"KeyError", "OperatorError"}
  /\ runLog[1][2].start.traceLen >= 1
  /\ Len(trace[1]) > runLog[1][2].start.traceLen

\* the operators invoked so far by the current or last run of VM 1
InvokedSeq == [i \in 1..Len(invoked[1]) |-> invoked[1][i].op]

\* C24: topological() terminates on every finite graph, cyclic or not (with
\* an order or the cycle error), and run() on an acyclic graph whose
\* operators are all registered and all return terminates, having invoked
\* each node's operator exactly once, one at a time, in topological order.
C24_Terminates ==
  /\ [](LET r == topological(edges[1], reverse[1])
        IN  IF Cyclic(EdgeSet(calls[1])) THEN ~r.ok /\ r.err = "ValueError"
            ELSE r.ok /\ Len(r.order) = Cardinality(NodesOf(calls[1])))
  /\ [](pc[1] = "running" => <>(pc[1] = "idle"))
  /\ []((Started(1) /\ ~Cyclic(EdgeSet(calls[1]))
           /\ AllSucceed(operators[1], calls[1])) =>
          /\ InvokedSeq = SubSeq(order[1], 1, Len(invoked[1]))
          /\ Len(invoked[1]) <= Len(order[1])
          /\ pc[1] = "running" => Len(invoked[1]) = idx[1] - 1
          /\ pc[1] = "idle" =>
               /\ outcome[1].kind = "returned"
               /\ InvokedSeq = topological(edges[1], reverse[1]).order
               /\ \A n \in NodesOf(calls[1]) : Occurrences(InvokedSeq, n) = 1)

\* a run over two roots and their common successor has ended, three
\* operators invoked
C24_Witness ==
  /\ pc[1] = "idle" /\ outcome[1].kind = "returned"
  /\ calls[1] = <<<<1, 3>>, <<2, 3>>>>
  /\ InvokedSeq = <<1, 2, 3>>

\* the run() call of VM 1 has ended by an exception of the loop body
Aborted == pc[1] = "idle" /\ outcome[1].kind \in {"KeyError", "OperatorError"}

\* C25: when an operator raises or is unregistered in the middle of run(),
\* the exception reaches the caller, no later operator of the order is
\* executed, the tick is not advanced for the failing operator, and the
\* trace keeps the entries of the operators completed before it in that run
\* together with all entries of earlier runs.
C25_AbortKeepsCompleted ==
  /\ [](Aborted =>
         LET done == idx[1] - 1 IN
         /\ outcome[1].name = order[1][idx[1]]
         /\ outcome[1] = runLog[1][Len(runLog[1])].outcome
         /\ InvokedSeq = SubSeq(order[1], 1,
               IF outcome[1].kind = "KeyError" THEN done ELSE done + 1)
         /\ tick[1] = runStart[1].tick + done
         /\ Len(trace[1]) = runStart[1].traceLen + done
         /\ \A j \in 1..done :
              /\ trace[1][runStart[1].traceLen + j].payload.op = order[1][j]
              /\ trace[1][runStart[1].traceLen + j].payload.tick
                   = runStart[1].tick + j - 1)
  /\ [][/\ (pc[1] = "running" /\ pc'[1] = "idle"
             /\ outcome'[1].kind # "returned") =>
              trace'[1] = trace[1] /\ tick'[1] = tick[1]
        /\ pc[1] = "running" =>
              SubSeq(trace'[1], 1, runStart[1].traceLen)
                = SubSeq(trace[1], 1, runStart[1].traceLen)]_vars

\* a second run was aborted at the second of three operators, after a
\* first run that left an entry
C25_Witness ==
  /\ Aborted /\ Len(runLog[1]) = 2
  /\ idx[1] = 2 /\ Len(order[1]) = 3
  /\ runStart[1].traceLen >= 1
  /\ Len(trace[1]) = runStart[1].traceLen + 1

\* C26: the trace of a VM is append-only over its lifetime: replay_buffer()
\* is what it was when the current or last run started followed by the
\* records that run produced (for a run that returned, the list it
\* returned), no step clears or reorders earlier entries, and on a fresh
\* instance after one successful run replay_buffer() is the returned trace.
C26_TraceAppendOnly ==
  /\ [](constructed[1] =>
         /\ runStart[1].traceLen <= Len(trace[1])
         /\ replay_buffer(1)
              = SubSeq(replay_buffer(1), 1, runStart[1].traceLen) \o local[1]
         /\ (pc[1] = "idle" /\ outcome[1].kind = "returned") =>
              outcome[1].trace = local[1]
         /\ Len(runLog[1]) >= 1 => runLog[1][1].start.traceLen = 0
         /\ (Len(runLog[1]) = 1 /\ pc[1] = "idle"
               /\ outcome[1].kind = "returned") =>
              replay_buffer(1) = outcome[1].trace
         /\ \A k \in 1..Len(replayed[1]) : replayed[1][k] = replay_buffer(1))
  /\ [][constructed[1] =>
          /\ Len(trace'[1]) >= Len(trace[1])
          /\ SubSeq(trace'[1], 1, Len(trace[1])) = trace[1]]_vars

\* replay_buffer() was called after two runs that both returned records
C26_Witness ==
  /\ Len(runLog[1]) = 2 /\ Len(replayed[1]) >= 1
  /\ runLog[1][1].outcome.kind = "returned"
  /\ runLog[1][2].outcome.kind = "returned"
  /\ Len(runLog[1][1].outcome.trace) >= 2
  /\ replayed[1][1] = runLog[1][1].outcome.trace \o runLog[1][2].outcome.trace

\* the entries a MemorySystem still holds: the most recent min(capacity, n)
\* of the n pairs recorded since construction or the last clear()
RetainedFrom == Len(recorded) - (IF capacity < Len(recorded) THEN capacity
                                 ELSE Len(recorded)) + 1
MostRecent == SubSeq(recorded, RetainedFrom, Len(recorded))

\* C27: after any sequence of record and clear calls the buffer holds at
\* most capacity entries, exactly the most recent min(capacity, n) recorded
\* since the last clear, in recording order; record on a full buffer evicts
\* exactly the oldest entry; construction with capacity <= 0 raises
\* ValueError.
C27_BufferBounded ==
  /\ [](made => /\ capacity > 0
                 /\ Len(buffer) <= capacity
                 /\ buffer = MostRecent)
  /\ []((~made /\ memCall.op = "init") =>
          capacity <= 0 /\ memCall.raised = "ValueError")
  /\ [](capacity <= 0 => ~made)
  /\ [][(made /\ Len(recorded') > Len(recorded) /\ Len(buffer) = capacity) =>
          buffer' = Append(Tail(buffer), recorded'[Len(recorded')])]_vars

\* three pairs were recorded into a MemorySystem of capacity 2, and the
\* first of them, unlike the other two, is gone
C27_Witness ==
  /\ made /\ capacity = 2 /\ Len(recorded) = 3
  /\ buffer = <<recorded[2], recorded[3]>>
  /\ recorded[1] # recorded[2] /\ recorded[1] # recorded[3]

\* the positions of the retained entries recorded under key
KeyPositions(key) ==
  {i \in RetainedFrom..Len(recorded) : recorded[i][1] = key}
\* the j-th of them
KeyPosition(key, j) ==
  CHOOSE i \in KeyPositions(key) :
    Cardinality({m \in KeyPositions(key) : m <= i}) = j

\* C28: recall(key) returns exactly the values of the currently retained
\* entries whose key equals key, in recording order, never a value of an
\* evicted or cleared entry; latest() returns the most recently recorded
\* pair, or None when nothing has been recorded since construction or the
\* last clear; recall and latest leave the buffer unchanged.
C28_RecallLatest ==
  /\ [](memCall.op = "recall" =>
          /\ Len(memCall.list) = Cardinality(KeyPositions(memCall.key))
          /\ \A j \in 1..Len(memCall.list) :
               memCall.list[j] = recorded[KeyPosition(memCall.key, j)][2])
  /\ [](memCall.op = "latest" =>
          memCall.pair = IF recorded = <<>> THEN NoPair
                         ELSE recorded[Len(recorded)])
  /\ [][memCall'.op \in {"recall", "latest"} =>
          /\ buffer' = buffer /\ recorded' = recorded
          /\ capacity' = capacity /\ made' = made]_vars

\* recall(key) returned one value while an older entry of the same key,
\* with another value, had been evicted
C28_Witness ==
  /\ memCall.op = "recall" /\ Len(memCall.list) = 1
  /\ Len(recorded) = 3 /\ capacity = 2
  /\ recorded[1][1] = memCall.key
  /\ recorded[1][2] # memCall.list[1]

\* the call of register_listener that first passed name
FirstAt(name) ==
  CHOOSE i \in 1..Len(registered) :
    registered[i] = name /\ \A j \in 1..(i - 1) : registered[j] # name
WasRegistered == {registered[i] : i \in 1..Len(registered)}

\* C29: register_listener is idempotent: after any sequence of calls the
\* layer's listeners are each registered name exactly once, in order of
\* first registration, and listeners() returns them; process() does not
\* change the list; listeners() returns a copy, so mutating the returned
\* list does not change the layer's listeners.
C29_ListenersOncePerName ==
  /\ [](LET lst == heap[ListenersObj] IN
        /\ {lst[i] : i \in 1..Len(lst)} = WasRegistered
        /\ \A name \in WasRegistered : Occurrences(lst, name) = 1
        /\ \A a, b \in WasRegistered :
             PosIn(lst, a) < PosIn(lst, b) <=> FirstAt(a) < FirstAt(b))
  /\ [][/\ perCall' = "listeners" =>
             /\ heap'[returned'] = heap[ListenersObj]
             /\ heap'[ListenersObj] = heap[ListenersObj]
        /\ perCall' \in {"process", "mutate"} =>
             heap'[ListenersObj] = heap[ListenersObj]]_vars

\* the caller changed the list listeners() returned, after a name had been
\* registered twice and another once
C29_Witness ==
  /\ perCall = "mutate"
  /\ heap[returned] # heap[ListenersObj]
  /\ Len(heap[ListenersObj]) = 2
  /\ Len(registered) = 3

\* every node of the list ns is listed in the outputs of each of its inputs
Linked(h, ns) ==
  \A n \in Items(ns) :
    \A inp \in Items(h[n].inputs) : n \in Items(h[inp].outputs)

\* C30: optimize() with fusion enabled: whenever a node is fused with its
\* parent, neither of the two remains in builder.nodes afterwards, each
\* fusion shrinks the node list by one, and every node left in
\* builder.nodes is still listed in the outputs of each of its inputs; with
\* enable_fusion(False), optimize() leaves builder.nodes unchanged.
C30_FusionRemovesBoth ==
  [][optimized' # optimized =>
       IF fusion_enabled
       THEN /\ \A f \in fusions' :
                 /\ f[1] \notin Items(nodes') /\ f[2] \notin Items(nodes')
                 /\ f[3] \in Items(nodes')
            /\ Len(nodes') = Len(nodes) - Cardinality(fusions')
            /\ Linked(irNodes, nodes) => Linked(irNodes', nodes')
       ELSE nodes' = nodes /\ irNodes' = irNodes]_vars

=============================================================================
